---- MODULE Spec2Model ----
(***************************************************************************)
(* A model of oauth_open_inviter/oauth_access/access.py: one flow object   *)
(* (OAuthAccess or OAuth2Access), the attributes its methods read and      *)
(* write, and one action per public method.  The transport is the          *)
(* environment: every request is answered by a (status, content) pair      *)
(* drawn from a small set.                                                 *)
(***************************************************************************)
EXTENDS Integers, Sequences, FiniteSets

\* Longest url-encoded body, counted in name=value fields.
MaxPairs == 2

\* An attribute that was never set (reading it raises AttributeError).
Absent == "<absent>"
\* Python's None.
None == "<None>"
\* The expiry of a token bundle that carries none.
NoExpiry == 0 - 1

Names == {"oauth_token", "oauth_token_secret", "access_token",
          "expires", "expires_in", "refresh_token"}

\* A dict with no key.
EmptyDict == [n \in Names |-> Absent]

(***************************************************************************)
(* Tokens.  tag: "none" (no token), "oauth1" (oauth.Token), "oauth2"       *)
(* (OAuth20Token), "given" (a token object the caller built), "badstr" (a  *)
(* string the caller passed that is no serialized token).                  *)
(***************************************************************************)
Tok(tag, key, secret, refresh, expiry) ==
    [tag |-> tag, key |-> key, secret |-> secret, refresh |-> refresh, expiry |-> expiry]

NoToken == Tok("none", None, None, None, NoExpiry)
GivenToken == Tok("given", "k0", "ks0", None, NoExpiry)
ArgToken == Tok("given", "k9", "ks9", None, NoExpiry)
BadStrToken == Tok("badstr", "garbage", None, None, NoExpiry)

(***************************************************************************)
(* Response bodies.  form: "empty" (""), "qs" (url-encoded fields, in      *)
(* order, values still percent-encoded), "json_obj" (a JSON object),       *)
(* "json_val" (a JSON value that is no object: val says which), "xml" (a   *)
(* well-formed XML document), "text" (anything else, without "=").         *)
(***************************************************************************)
Body(form, pairs, obj, val) == [form |-> form, pairs |-> pairs, obj |-> obj, val |-> val]

EmptyBody == Body("empty", <<>>, EmptyDict, "-")
TextBody == Body("text", <<>>, EmptyDict, "-")
XmlBody == Body("xml", <<>>, EmptyDict, "-")
JsonObj(d) == Body("json_obj", <<>>, d, "-")
JsonVal(v) == Body("json_val", <<>>, EmptyDict, v)
QsBody(ps) == Body("qs", ps, EmptyDict, "-")

SeqsUpTo(S, n) == UNION {[1..k -> S] : k \in 1..n}

\* Fields a request-token or OAuth1 access-token response may carry.
Pairs1 == {<<"oauth_token", "tok1">>, <<"oauth_token", "">>,
           <<"oauth_token_secret", "sec%2F1">>, <<"oauth_token_secret", "">>}
Bodies1 == {EmptyBody, TextBody} \cup {QsBody(ps) : ps \in SeqsUpTo(Pairs1, MaxPairs)}

\* Fields and JSON documents an OAuth2 code-exchange response may carry.
Pairs2 == {<<"access_token", "at1">>, <<"access_token", "">>, <<"expires", "3600">>}
JsonObjs2 == {[n \in Names |-> IF n = "access_token" THEN a
                               ELSE IF n = "expires" THEN e
                               ELSE IF n = "expires_in" THEN i
                               ELSE Absent] :
                 a \in {Absent, "at1"}, e \in {Absent, "3600", "soon"}, i \in {Absent, "60"}}
\* num: a non-zero number; null; str: a non-empty string naming no field; list: [].
JsonVals == {"num", "null", "str", "list"}
Bodies2 == {EmptyBody, TextBody}
           \cup {JsonObj(d) : d \in JsonObjs2}
           \cup {JsonVal(v) : v \in JsonVals}
           \cup {QsBody(ps) : ps \in SeqsUpTo(Pairs2, MaxPairs)}

\* Bodies an API endpoint may answer with: nothing, JSON ("{}"), XML.
ApiBodies == {EmptyBody, JsonObj(EmptyDict), XmlBody}

Statuses == {"200", "401", "500"}
Kinds == {"raw", "json", "xml", "csv"}
Methods == {"GET", "POST"}
TokenArgs == {NoToken, ArgToken, BadStrToken}
\* The params keyword of make_api_call: not passed, a mapping of the caller's
\* own fields, a mapping that itself names access_token.
ParamArgs == {"absent", "plain", "own_token"}

(***************************************************************************)
(* Library functions, as the code uses them.                               *)
(***************************************************************************)
\* urllib unquoting of one value.
Unquote(v) == IF v = "sec%2F1" THEN "sec/1" ELSE v

\* urlparse.parse_qsl(content): the fields in order, blank values dropped
\* (keep_blank_values is off), values unquoted; text without "=" gives none.
parse_qsl(content) ==
    IF content.form = "qs"
    THEN LET kept == SelectSeq(content.pairs, LAMBDA p : p[2] # "")
         IN  [i \in 1..Len(kept) |-> <<kept[i][1], Unquote(kept[i][2])>>]
    ELSE <<>>

\* dict(pairs): a later field replaces an earlier one of the same name.
DictOf(ps) ==
    [n \in Names |->
        LET idx == {i \in 1..Len(ps) : ps[i][1] = n}
        IN  IF idx = {} THEN Absent
            ELSE ps[CHOOSE i \in idx : \A j \in idx : j <= i][2]]

\* d.get(k): None for a missing key.
Get(d, k) == IF d[k] = Absent THEN None ELSE d[k]

\* bool(d) of a dict.
NonEmptyDict(d) == \E n \in Names : d[n] # Absent

\* Whether int(v) succeeds, and its value.
IsInt(v) == v \in {"3600", "60"}
IntOf(v) == IF v = "3600" THEN 3600 ELSE IF v = "60" THEN 60 ELSE NoExpiry

\* Whether json.loads(content) succeeds.
JsonOk(content) == content.form \in {"json_obj", "json_val"}

\* Whether etree.fromstring(content) succeeds.
XmlOk(content) == content.form = "xml"

\* bool(content) of a response body.
NonEmpty(content) == content.form # "empty"

\* The first value of field n, as parse_qs(s)[n][0] gives it.
FirstOf(ps, n) ==
    LET idx == {i \in 1..Len(ps) : ps[i][1] = n}
    IN  IF idx = {} THEN Absent
        ELSE ps[CHOOSE i \in idx : \A j \in idx : i <= j][2]

\* oauth.Token(key, secret): both must be set.
TokenCtorOk(key, secret) == key # None /\ secret # None

\* oauth.Token.from_string(content): [ok, tok]; ValueError on an empty string,
\* on a string without fields, or when either field is missing.
from_string(content) ==
    LET ps == parse_qsl(content)
        key == FirstOf(ps, "oauth_token")
        secret == FirstOf(ps, "oauth_token_secret")
    IN  IF ~NonEmpty(content) \/ Len(ps) = 0 \/ key = Absent \/ secret = Absent
        THEN [ok |-> FALSE, tok |-> NoToken]
        ELSE [ok |-> TRUE, tok |-> Tok("oauth1", key, secret, None, NoExpiry)]

(***************************************************************************)
(* Parameter mappings and requests.                                        *)
(***************************************************************************)
ReqNames == {"access_token", "client_id", "redirect_uri", "client_secret", "code",
             "grant_type", "response_type", "oauth_callback", "scope", "q"}

\* {}
NoParams == [n \in ReqNames |-> Absent]

\* The names a mapping holds.
Keys(ps) == {n \in ReqNames : ps[n] # Absent}

\* a.update(b): b's entries replace a's.
Update(a, b) == [n \in ReqNames |-> IF b[n] # Absent THEN b[n] ELSE a[n]]

\* ' '.join(scope_urls)
Join(scope) == IF scope = <<"read", "write">> THEN "read write" ELSE ""

\* BaseAccess.get_params: the scope is added whenever a scope list is
\* configured; urlencode keeps the mapping.
get_params(params, scope) ==
    IF scope # <<>> THEN [params EXCEPT !["scope"] = Join(scope)] ELSE params

\* OAuthAccess.get_auth_params (extra_auth_params is the class's empty dict).
get_auth_params1(cb) == [NoParams EXCEPT !["oauth_callback"] = cb]

\* OAuth2Access.get_auth_params
get_auth_params2(key, cb) ==
    [NoParams EXCEPT !["client_id"] = key, !["redirect_uri"] = cb, !["response_type"] = "code"]

\* The body of the code exchange before get_params.
ExchangeParams(key, secret, cb, c) ==
    [NoParams EXCEPT !["client_id"] = key, !["redirect_uri"] = cb,
                     !["client_secret"] = secret, !["code"] = c,
                     !["grant_type"] = "authorization_code"]

\* kwargs["params"] of make_api_call.
CallerParams(p) ==
    IF p = "plain" THEN [NoParams EXCEPT !["q"] = "x"]
    ELSE IF p = "own_token" THEN [NoParams EXCEPT !["access_token"] = "mine"]
    ELSE NoParams

\* str(token): "None" for None, the token string of a token object.
StrOf(token) == IF token = NoToken THEN "None" ELSE token.key

\* A request handed to the transport: where it goes, how, its parameters (in
\* the query string or in the body) and the token it is signed with.
Req(endpoint, method, via, params, signer) ==
    [endpoint |-> endpoint, method |-> method, via |-> via, params |-> params,
     signer |-> signer]

\* A handler that sends again when the answer is not a 200.
SendRetry(req, status) == IF status # "200" THEN <<req, req>> ELSE <<req>>

\* The requests a handler makes for one call: client.request / http.request
\* is called once, whatever the status of the answer.
Send(req, status) == <<req>>

(***************************************************************************)
(* What a call returns.  kind: "none" (None), "pair" (get_tokens' mapping),*)
(* "token" (a token object), "raw", "json", "xml" (make_api_call's         *)
(* results), "url", "params", "attached" (the content an exception        *)
(* carries).                                                               *)
(***************************************************************************)
Ret(kind, tok, t, s, body) ==
    [kind |-> kind, tok |-> tok, t |-> t, s |-> s, body |-> body, query |-> NoParams]
\* A mapping of parameters (get_auth_params) or a url with its query string.
RetQuery(kind, t, s, q) == [Ret(kind, NoToken, t, s, EmptyBody) EXCEPT !.query = q]
RetNone == Ret("none", NoToken, None, None, EmptyBody)
RetToken(tok) == Ret("token", tok, None, None, EmptyBody)
RetPair(t, s) == Ret("pair", NoToken, t, s, EmptyBody)
RetBody(kind, body) == Ret(kind, NoToken, None, None, body)

\* How a call ended: "returned", or the exception raised and its message.
End(outcome, detail, ret) == [outcome |-> outcome, detail |-> detail, ret |-> ret]
Raised(exc, detail) == End(exc, detail, RetNone)
\* An exception that carries the content it was raised for.
RaisedWith(exc, detail, content) == End(exc, detail, RetBody("attached", content))
Returned(ret) == End("returned", "-", ret)

(***************************************************************************)
(* BaseAccess.make_api_call                                                *)
(***************************************************************************)
\* token or getattr(self, 'access_token', None): a string or token object
\* the caller passed wins; None falls back to the stored token.
ResolveToken(tokarg, stored) == IF tokarg # NoToken THEN tokarg ELSE stored

\* Classify with the emptiness check made before the status check.
ClassifyEmptyFirst(kind, status, content) ==
    IF ~NonEmpty(content) THEN Raised("ServiceFail", "no content")
    ELSE IF status = "401" THEN Raised("NotAuthorized", "-")
    ELSE IF kind = "raw" THEN Returned(RetBody("raw", content))
    ELSE IF kind = "json"
         THEN IF JsonOk(content) THEN Returned(RetBody("json", content))
              ELSE RaisedWith("ServiceFail", "JSON parse error", content)
    ELSE IF kind = "xml"
         THEN IF XmlOk(content) THEN Returned(RetBody("xml", content))
              ELSE Raised("ParseError", "-")
    ELSE Raised("Exception", "unsupported API kind")

\* Classify with the kind looked at before the content: an unknown kind is
\* rejected first, and the emptiness check is made per format.
ClassifyKindFirst(kind, status, content) ==
    IF status = "401" THEN Raised("NotAuthorized", "-")
    ELSE IF kind \notin {"raw", "json", "xml"}
    THEN Raised("Exception", "unsupported API kind")
    ELSE IF ~NonEmpty(content) THEN Raised("ServiceFail", "no content")
    ELSE IF kind = "raw" THEN Returned(RetBody("raw", content))
    ELSE IF kind = "json"
         THEN IF JsonOk(content) THEN Returned(RetBody("json", content))
              ELSE RaisedWith("ServiceFail", "JSON parse error", content)
    ELSE IF XmlOk(content) THEN Returned(RetBody("xml", content))
    ELSE Raised("ParseError", "-")

\* Classify that raises the JSON error without the content.
ClassifyJsonBare(kind, status, content) ==
    IF status = "401" THEN Raised("NotAuthorized", "-")
    ELSE IF ~NonEmpty(content) THEN Raised("ServiceFail", "no content")
    ELSE IF kind = "raw" THEN Returned(RetBody("raw", content))
    ELSE IF kind = "json"
         THEN IF JsonOk(content) THEN Returned(RetBody("json", content))
              ELSE Raised("ServiceFail", "JSON parse error")
    ELSE IF kind = "xml"
         THEN IF XmlOk(content) THEN Returned(RetBody("xml", content))
              ELSE Raised("ParseError", "-")
    ELSE Raised("Exception", "unsupported API kind")

\* Classify that hands the content back for a kind it does not know.
ClassifyDefaultRaw(kind, status, content) ==
    IF status = "401" THEN Raised("NotAuthorized", "-")
    ELSE IF ~NonEmpty(content) THEN Raised("ServiceFail", "no content")
    ELSE IF kind = "json"
         THEN IF JsonOk(content) THEN Returned(RetBody("json", content))
              ELSE RaisedWith("ServiceFail", "JSON parse error", content)
    ELSE IF kind = "xml"
         THEN IF XmlOk(content) THEN Returned(RetBody("xml", content))
              ELSE Raised("ParseError", "-")
    ELSE Returned(RetBody("raw", content))

\* The checks made on the response of _make_api_call, in the code's order.
Classify(kind, status, content) ==
    IF status = "401" THEN Raised("NotAuthorized", "-")
    ELSE IF ~NonEmpty(content) THEN Raised("ServiceFail", "no content")
    ELSE IF kind = "raw" THEN Returned(RetBody("raw", content))
    ELSE IF kind = "json"
         THEN IF JsonOk(content) THEN Returned(RetBody("json", content))
              ELSE RaisedWith("ServiceFail", "JSON parse error", content)
    ELSE IF kind = "xml"
         THEN IF XmlOk(content) THEN Returned(RetBody("xml", content))
              ELSE Raised("ParseError", "-")
    ELSE Raised("Exception", "unsupported API kind")

\* OAuthAccess._make_api_call up to client.request: "ok", or the exception
\* raised before any request is made.
Prepare1(token, method, params) ==
    IF token.tag = "badstr" THEN "ValueError"
    ELSE IF method = "POST" /\ params = "absent" THEN "TypeError"
    ELSE "ok"

\* OAuth2Access._make_api_call up to http.request: str(token) and has_key
\* accept everything.
Prepare2(token, method, params) == "ok"

\* The request of OAuthAccess._make_api_call: signed with the token, params
\* in the body of a POST and in the parameters of a GET.
ApiRequest1(token, method, params) ==
    Req("api", method, IF method = "POST" THEN "body" ELSE "query",
        CallerParams(params), token)

\* The request of OAuth2Access._make_api_call: access_token first, then the
\* caller's params over it.
ApiRequest2(token, method, params) ==
    Req("api", method, IF method = "POST" THEN "body" ELSE "query",
        Update([NoParams EXCEPT !["access_token"] = StrOf(token)], CallerParams(params)),
        NoToken)

(***************************************************************************)
(* OAuthAccess.get_tokens: the new (oauth_token, oauth_token_secret) and   *)
(* how the call ended, for the response (status, content).                 *)
(***************************************************************************)
RequestTokenStepNoStatus(status, content, tok, sec) ==
    \* get_tokens without its status check
    LET d == DictOf(parse_qsl(content))
        t == Get(d, "oauth_token")
        s == Get(d, "oauth_token_secret")
    IN  [token |-> t, secret |-> s, end |-> Returned(RetPair(t, s))]

RequestTokenStepKeep(status, content, tok, sec) ==
    \* get_tokens that keeps a pair it already holds
    IF status # "200"
    THEN [token |-> tok, secret |-> sec, end |-> Raised("Exception", "Invalid response")]
    ELSE LET d == DictOf(parse_qsl(content))
             t == IF tok \in {Absent, None} THEN Get(d, "oauth_token") ELSE tok
             s == IF sec \in {Absent, None} THEN Get(d, "oauth_token_secret") ELSE sec
         IN  [token |-> t, secret |-> s, end |-> Returned(RetPair(t, s))]

RequestTokenStepStoreFirst(status, content, tok, sec) ==
    \* get_tokens that stores the parsed pair before it checks the status
    LET d == DictOf(parse_qsl(content))
        t == Get(d, "oauth_token")
        s == Get(d, "oauth_token_secret")
    IN  [token |-> t, secret |-> s,
         end |-> IF status # "200" THEN Raised("Exception", "Invalid response")
                 ELSE Returned(RetPair(t, s))]

RequestTokenStep(status, content, tok, sec) ==
    IF status # "200"
    THEN [token |-> tok, secret |-> sec, end |-> Raised("Exception", "Invalid response")]
    ELSE LET d == DictOf(parse_qsl(content))
             t == Get(d, "oauth_token")
             s == Get(d, "oauth_token_secret")
         IN  [token |-> t, secret |-> s, end |-> Returned(RetPair(t, s))]

(***************************************************************************)
(* OAuthAccess.receive_access_tokens                                       *)
(***************************************************************************)
\* receive_access_tokens reading the pair with a default and a token class
\* that accepts anything.
RequestTokenReadyLax(tok, sec) == "ok"

\* The part before client.request: reading the request token pair and
\* building oauth.Token from it.
RequestTokenReady(tok, sec) ==
    IF tok = Absent \/ sec = Absent THEN "AttributeError"
    ELSE IF ~TokenCtorOk(tok, sec) THEN "ValueError"
    ELSE "ok"

\* receive_access_tokens that drops the stored token when the body is no token.
AccessTokenStepClearing(status, content, stored) ==
    LET r == from_string(content)
    IN  IF r.ok THEN [access |-> r.tok, end |-> Returned(RetToken(r.tok))]
        ELSE [access |-> NoToken, end |-> Raised("ValueError", "-")]

\* The part after client.request: the status is not looked at.
AccessTokenStep(status, content, stored) ==
    LET r == from_string(content)
    IN  IF r.ok THEN [access |-> r.tok, end |-> Returned(RetToken(r.tok))]
        ELSE [access |-> stored, end |-> Raised("ValueError", "-")]

(***************************************************************************)
(* OAuth2Access.receive_access_tokens                                      *)
(***************************************************************************)
\* receive_access_tokens without its "if code:".
HasCodeAlways(c) == TRUE

\* if code: an unset, None or empty code skips the exchange.
HasCode(c) == c # Absent /\ c # None /\ c # ""

\* json.loads(content), else dict(parse_qsl(content)): the value's type
\* ("dict", or which JSON value it is) and, for a dict, its items.
ParseExchange(content) ==
    IF JsonOk(content)
    THEN IF content.form = "json_obj" THEN [type |-> "dict", d |-> content.obj]
         ELSE [type |-> content.val, d |-> EmptyDict]
    ELSE [type |-> "dict", d |-> DictOf(parse_qsl(content))]

\* bool(d) of the parsed value.
Truthy(p) ==
    IF p.type = "dict" THEN NonEmptyDict(p.d) ELSE p.type \in {"num", "str"}

\* The rename left out.
RenameExpiresNot(d) == d

\* d['expires_in'] = d.pop('expires')
RenameExpires(d) == [d EXCEPT !["expires_in"] = d["expires"], !["expires"] = Absent]

\* ExchangeStep that stores the bundle as soon as the body names a token,
\* before it looks at the status.
ExchangeStepStoreFirst(status, content, stored) ==
    LET p == ParseExchange(content)
        d == IF p.type = "dict" /\ Truthy(p) /\ p.d["expires"] # Absent
             THEN RenameExpires(p.d) ELSE p.d
        bundle == Tok("oauth2", d["access_token"], None, Get(d, "refresh_token"),
                      IF d["expires_in"] # Absent THEN IntOf(d["expires_in"]) ELSE NoExpiry)
        named == p.type = "dict" /\ d["access_token"] # Absent
                 /\ (d["expires_in"] # Absent => IsInt(d["expires_in"]))
    IN  IF Truthy(p) /\ p.type = "num"
        THEN [access |-> stored, end |-> Raised("TypeError", "-")]
        ELSE IF status # "200"
        THEN [access |-> IF named THEN bundle ELSE stored, end |-> Raised("MissingToken", "-")]
        ELSE IF p.type = "null"
        THEN [access |-> stored, end |-> Raised("TypeError", "-")]
        ELSE IF p.type # "dict" \/ d["access_token"] = Absent
        THEN [access |-> stored, end |-> Raised("MissingToken", "-")]
        ELSE IF d["expires_in"] # Absent /\ ~IsInt(d["expires_in"])
        THEN [access |-> stored, end |-> Raised("ValueError", "-")]
        ELSE [access |-> bundle, end |-> Returned(RetToken(bundle))]

\* From the parsed response to the stored bundle, in the code's order.
ExchangeStep(status, content, stored) ==
    LET p == ParseExchange(content)
        d == IF p.type = "dict" /\ Truthy(p) /\ p.d["expires"] # Absent
             THEN RenameExpires(p.d) ELSE p.d
        bundle == Tok("oauth2", d["access_token"], None, Get(d, "refresh_token"),
                      IF d["expires_in"] # Absent THEN IntOf(d["expires_in"]) ELSE NoExpiry)
    IN  IF Truthy(p) /\ p.type = "num"
        THEN [access |-> stored, end |-> Raised("TypeError", "-")]
        ELSE IF status # "200"
        THEN [access |-> stored, end |-> Raised("MissingToken", "-")]
        ELSE IF p.type = "null"
        THEN [access |-> stored, end |-> Raised("TypeError", "-")]
        ELSE IF p.type # "dict" \/ d["access_token"] = Absent
        THEN [access |-> stored, end |-> Raised("MissingToken", "-")]
        ELSE IF d["expires_in"] # Absent /\ ~IsInt(d["expires_in"])
        THEN [access |-> stored, end |-> Raised("ValueError", "-")]
        ELSE [access |-> bundle, end |-> Returned(RetToken(bundle))]

(***************************************************************************)
(* The flow object.                                                        *)
(***************************************************************************)
VARIABLES
    variant,             \* "OAuth1" (OAuthAccess) or "OAuth2" (OAuth2Access)
    consumer_key,
    consumer_secret,
    callback_url,        \* Absent or the url
    scope_urls,          \* the scope list
    oauth_token,         \* Absent, None or the request token
    oauth_token_secret,  \* Absent, None or its secret
    oauth_verifier,      \* Absent or the verifier
    code,                \* Absent or the authorization code
    access_token,        \* NoToken or the stored access token
    last,                \* the last call: its arguments, the response, how it ended
    gotTokens,           \* get_tokens has returned a pair on this flow
    received             \* receive_access_tokens has returned a token on this flow

vars == <<variant, consumer_key, consumer_secret, callback_url, scope_urls,
          oauth_token, oauth_token_secret, oauth_verifier, code, access_token,
          last, gotTokens, received>>

config == <<variant, consumer_key, consumer_secret, callback_url, scope_urls,
            oauth_verifier, code>>

\* The keyword arguments of a construction; whatever is not passed stays unset
\* (scope_urls: the class's empty list).
Kw(cb, tok, sec, ver, c, acc, scope) ==
    [callback_url |-> cb, oauth_token |-> tok, oauth_token_secret |-> sec,
     oauth_verifier |-> ver, code |-> c, access_token |-> acc, scope_urls |-> scope]

Scopes == <<"read", "write">>

\* OAuthAccess(key, secret, **kw): a new flow, a flow without callback, the
\* second step's flow rebuilt from the saved request token, one rebuilt with
\* the token alone, and a flow handed a token obtained earlier.
Constructions1 ==
    {Kw("cb", Absent, Absent, Absent, Absent, NoToken, <<>>),
     Kw(Absent, Absent, Absent, Absent, Absent, NoToken, <<>>),
     Kw("cb", "t0", "s0", "v0", Absent, NoToken, <<>>),
     Kw("cb", "t0", Absent, Absent, Absent, NoToken, <<>>),
     Kw("cb", Absent, Absent, Absent, Absent, GivenToken, <<>>)}

\* OAuth2Access(key, secret, **kw): before and after the redirect brought the
\* code, with and without scopes, and a flow handed a token obtained earlier.
Constructions2 ==
    {Kw("cb", Absent, Absent, Absent, Absent, NoToken, <<>>),
     Kw(Absent, Absent, Absent, Absent, Absent, NoToken, Scopes),
     Kw("cb", Absent, Absent, Absent, "c0", NoToken, <<>>),
     Kw("cb", Absent, Absent, Absent, "c0", NoToken, Scopes),
     Kw("cb", Absent, Absent, Absent, Absent, GivenToken, <<>>)}

\* A record of a call.  reqs are the requests it made and nreq their number; status and content
\* are the response when it made one; eff is the token make_api_call resolved.
Call(op, kind, tokarg, method, params, reqs, status, content, eff, end) ==
    [op |-> op, kind |-> kind, tokarg |-> tokarg, method |-> method, params |-> params,
     reqs |-> reqs, nreq |-> Len(reqs), status |-> status, content |-> content, eff |-> eff,
     outcome |-> end.outcome, detail |-> end.detail, ret |-> end.ret]

\* A call without arguments that made no request.
Local(op, end) == Call(op, "-", NoToken, "-", "-", <<>>, "-", EmptyBody, NoToken, end)

\* A call without arguments that sent req.
Remote(op, req, status, content, end) ==
    Call(op, "-", NoToken, "-", "-", Send(req, status), status, content, NoToken, end)

\* BaseAccess.__init__: the two credentials, then every keyword as an attribute.
Init ==
    /\ variant \in {"OAuth1", "OAuth2"}
    /\ consumer_key = "ck"
    /\ consumer_secret = "cs"
    /\ \E kw \in (IF variant = "OAuth1" THEN Constructions1 ELSE Constructions2) :
          /\ callback_url = kw.callback_url
          /\ scope_urls = kw.scope_urls
          /\ oauth_token = kw.oauth_token
          /\ oauth_token_secret = kw.oauth_token_secret
          /\ oauth_verifier = kw.oauth_verifier
          /\ code = kw.code
          /\ access_token = kw.access_token
    /\ last = Local("init", Returned(RetNone))
    /\ gotTokens = FALSE
    /\ received = FALSE

\* OAuthAccess.get_auth_params and OAuth2Access.get_auth_params: both read
\* self.callback_url.
GetAuthParams ==
    /\ last' = Local("get_auth_params",
                     IF callback_url = Absent THEN Raised("AttributeError", "-")
                     ELSE Returned(RetQuery("params", None, None,
                                            IF variant = "OAuth1"
                                            THEN get_auth_params1(callback_url)
                                            ELSE get_auth_params2(consumer_key,
                                                                  callback_url))))
    /\ UNCHANGED <<config, oauth_token, oauth_token_secret, access_token,
                   gotTokens, received>>

\* get_tokens that writes the returned secret over the consumer secret.
GetTokens1SecretMixup ==
    /\ variant = "OAuth1"
    /\ callback_url # Absent
    /\ \E status \in Statuses, content \in Bodies1 :
          LET r == RequestTokenStep(status, content, oauth_token, consumer_secret)
          IN  /\ oauth_token' = r.token
              /\ consumer_secret' = r.secret
              /\ last' = Remote("get_tokens",
                                Req("request_token_url", "GET", "query",
                                    get_params(get_auth_params1(callback_url), scope_urls),
                                    NoToken),
                                status, content, r.end)
              /\ gotTokens' = (gotTokens \/ r.end.outcome = "returned")
    /\ UNCHANGED <<variant, consumer_key, callback_url, scope_urls, oauth_verifier, code,
                   oauth_token_secret, access_token, received>>

\* OAuthAccess.get_tokens
GetTokens1 ==
    /\ variant = "OAuth1"
    /\ \/ /\ callback_url = Absent
          /\ last' = Local("get_tokens", Raised("AttributeError", "-"))
          /\ UNCHANGED <<oauth_token, oauth_token_secret, gotTokens>>
       \/ /\ callback_url # Absent
          /\ \E status \in Statuses, content \in Bodies1 :
                LET r == RequestTokenStep(status, content, oauth_token, oauth_token_secret)
                IN  /\ oauth_token' = r.token
                    /\ oauth_token_secret' = r.secret
                    /\ last' = Remote("get_tokens",
                                     Req("request_token_url", "GET", "query",
                                         get_params(get_auth_params1(callback_url),
                                                    scope_urls),
                                         NoToken),
                                     status, content, r.end)
                    /\ gotTokens' = (gotTokens \/ r.end.outcome = "returned")
    /\ UNCHANGED <<config, access_token, received>>

\* OAuth2Access.get_tokens
GetTokens2 ==
    /\ variant = "OAuth2"
    /\ last' = Local("get_tokens", Returned(RetNone))
    /\ UNCHANGED <<config, oauth_token, oauth_token_secret, access_token,
                   gotTokens, received>>

\* get_auth_url that fetches a request token itself when none is stored.
GetAuthUrl1Fetching ==
    /\ variant = "OAuth1"
    /\ \E status \in Statuses, content \in Bodies1 :
          LET r == RequestTokenStep(status, content, oauth_token, oauth_token_secret)
          IN  /\ oauth_token' = r.token
              /\ oauth_token_secret' = r.secret
              /\ last' = Remote("get_auth_url",
                                Req("request_token_url", "GET", "query", NoParams, NoToken),
                                status, content, r.end)
    /\ UNCHANGED <<config, access_token, gotTokens, received>>

\* OAuthAccess.get_auth_url: builds oauth.Token from the stored pair and signs.
GetAuthUrl1 ==
    /\ variant = "OAuth1"
    /\ LET ready == RequestTokenReady(oauth_token, oauth_token_secret)
       IN  last' = Local("get_auth_url",
                         IF ready = "ok"
                         THEN Returned(RetQuery("url", oauth_token, oauth_token_secret,
                                                NoParams))
                         ELSE Raised(ready, "-"))
    /\ UNCHANGED <<config, oauth_token, oauth_token_secret, access_token,
                   gotTokens, received>>

\* OAuth2Access.get_auth_url: authorize_url + "?" + get_params(get_auth_params()).
GetAuthUrl2 ==
    /\ variant = "OAuth2"
    /\ last' = Local("get_auth_url",
                     IF callback_url = Absent THEN Raised("AttributeError", "-")
                     ELSE Returned(RetQuery("url", None, None,
                                            get_params(get_auth_params2(consumer_key,
                                                                        callback_url),
                                                       scope_urls))))
    /\ UNCHANGED <<config, oauth_token, oauth_token_secret, access_token,
                   gotTokens, received>>

\* OAuthAccess.receive_access_tokens
ReceiveAccessTokens1 ==
    /\ variant = "OAuth1"
    /\ LET ready == RequestTokenReady(oauth_token, oauth_token_secret)
       IN  \/ /\ ready # "ok"
              /\ last' = Local("receive_access_tokens", Raised(ready, "-"))
              /\ UNCHANGED <<access_token, received>>
           \/ /\ ready = "ok"
              /\ \E status \in Statuses, content \in Bodies1 :
                    LET r == AccessTokenStep(status, content, access_token)
                    IN  /\ access_token' = r.access
                        /\ last' = Remote("receive_access_tokens",
                                          Req("access_token_url", "GET", "query", NoParams,
                                              Tok("oauth1", oauth_token, oauth_token_secret,
                                                  None, NoExpiry)),
                                          status, content, r.end)
                        /\ received' = (received \/ r.end.outcome = "returned")
    /\ UNCHANGED <<config, oauth_token, oauth_token_secret, gotTokens>>

\* OAuth2Access.receive_access_tokens
ReceiveAccessTokens2 ==
    /\ variant = "OAuth2"
    /\ \/ /\ ~HasCode(code)
          /\ last' = Local("receive_access_tokens", Returned(RetNone))
          /\ UNCHANGED <<access_token, received>>
       \/ /\ HasCode(code)
          /\ \E status \in Statuses, content \in Bodies2 :
                LET r == ExchangeStep(status, content, access_token)
                IN  /\ access_token' = r.access
                    /\ last' = Remote("receive_access_tokens",
                                      Req("access_token_url", "POST", "body",
                                          get_params(ExchangeParams(consumer_key,
                                                                    consumer_secret,
                                                                    callback_url, code),
                                                     scope_urls),
                                          NoToken),
                                      status, content, r.end)
                    /\ received' = (received \/ r.end.outcome = "returned")
    /\ UNCHANGED <<config, oauth_token, oauth_token_secret, gotTokens>>

\* BaseAccess.make_api_call, with the variant's _make_api_call.
MakeApiCall ==
    /\ \E kind \in Kinds, tokarg \in TokenArgs, method \in Methods, params \in ParamArgs :
          LET token == ResolveToken(tokarg, access_token)
              ready == IF variant = "OAuth1" THEN Prepare1(token, method, params)
                       ELSE Prepare2(token, method, params)
          IN  \/ /\ ready # "ok"
                 /\ last' = Call("make_api_call", kind, tokarg, method, params, <<>>, "-",
                                 EmptyBody, token, Raised(ready, "-"))
              \/ /\ ready = "ok"
                 /\ \E status \in Statuses, content \in ApiBodies :
                       last' = Call("make_api_call", kind, tokarg, method, params,
                                    Send(IF variant = "OAuth1"
                                         THEN ApiRequest1(token, method, params)
                                         ELSE ApiRequest2(token, method, params),
                                         status),
                                    status, content, token, Classify(kind, status, content))
    /\ UNCHANGED <<config, oauth_token, oauth_token_secret, access_token,
                   gotTokens, received>>

Next ==
    \/ GetAuthParams
    \/ GetTokens1
    \/ GetTokens2
    \/ GetAuthUrl1
    \/ GetAuthUrl2
    \/ ReceiveAccessTokens1
    \/ ReceiveAccessTokens2
    \/ MakeApiCall

Spec == Init /\ [][Next]_vars

(***************************************************************************)
(* Properties.                                                             *)
(***************************************************************************)
\* A request token pair is stored: both attributes set, neither None.
PairStored == /\ oauth_token \notin {Absent, None}
              /\ oauth_token_secret \notin {Absent, None}

\* The flow attributes no call may touch except the one that owns them.
RequestPairUnchanged == UNCHANGED <<oauth_token, oauth_token_secret>>

\* C1 as stated: an OAuth1 flow on which receive_access_tokens has returned a
\* token is a flow on which get_tokens has returned before.
C1_Original == (variant = "OAuth1" /\ received) => gotTokens

\* C1, amended: on an OAuth1 flow that holds no request token pair (none
\* passed to the constructor, none stored by get_tokens) every call of
\* receive_access_tokens fails before any request and leaves the stored
\* access token as it was; receive_access_tokens returns a token only from a
\* state in which a pair is stored.
C1_Amended ==
    [][/\ (variant = "OAuth1" /\ last'.op = "receive_access_tokens" /\ ~PairStored)
          => /\ last'.outcome \in {"AttributeError", "ValueError"}
             /\ last'.nreq = 0
             /\ access_token' = access_token
             /\ received' = received
       /\ (variant = "OAuth1" /\ ~received /\ received') => PairStored]_vars

\* C1 witness: receive_access_tokens was called on a new OAuth1 flow and failed.
C1_Witness ==
    /\ variant = "OAuth1" /\ ~gotTokens /\ oauth_token = Absent
    /\ last.op = "receive_access_tokens" /\ last.outcome = "AttributeError"
    /\ access_token = NoToken

\* C2 as stated: a stored access token implies an earlier successful
\* receive_access_tokens.
C2_Original == access_token # NoToken => received

\* C2, amended: a stored access token is either the one passed to the
\* constructor as the access_token keyword or the one a successful
\* receive_access_tokens stored; no other operation creates it.
C2_Amended ==
    /\ access_token # NoToken => (received \/ access_token = GivenToken)
    /\ access_token.tag \in {"oauth1", "oauth2"} => received
    /\ (last.op = "receive_access_tokens" /\ last.outcome = "returned" /\ last.nreq = 1)
          => (received /\ access_token = last.ret.tok /\ access_token # NoToken)

\* C2 witness: a token stored by receive_access_tokens on a flow that had none.
C2_Witness ==
    /\ received /\ access_token.tag = "oauth2"
    /\ last.op = "receive_access_tokens" /\ last.outcome = "returned"

\* C3 as stated: make_api_call passes on the explicit token if given, else
\* the stored one, and fails when there is neither (read generously: with
\* whatever error, as long as the call does not return a result).
C3_Claim ==
    last.op = "make_api_call"
       => /\ last.eff = (IF last.tokarg # NoToken THEN last.tokarg ELSE access_token)
          /\ (last.tokarg = NoToken /\ access_token = NoToken)
                => last.outcome # "returned"

\* C4: a dispatched call whose response has status "401" fails with
\* NotAuthorized, whatever the kind and the content, on both variants.
C4_Unauthorized ==
    (last.op = "make_api_call" /\ last.nreq = 1 /\ last.status = "401")
       => (last.outcome = "NotAuthorized" /\ last.ret = RetNone)

\* C4 witness: a 401 with an unsupported kind and an empty body.
C4_Witness ==
    /\ last.op = "make_api_call" /\ last.status = "401"
    /\ last.kind = "csv" /\ last.content = EmptyBody
    /\ last.outcome = "NotAuthorized"

\* C5: a response that is not a 401 and has empty content fails with
\* ServiceFail("no content") for every kind, supported or not.
C5_NoContent ==
    (last.op = "make_api_call" /\ last.nreq = 1 /\ last.status # "401"
        /\ last.content = EmptyBody)
       => (last.outcome = "ServiceFail" /\ last.detail = "no content")

\* C5 witness: an empty body asked for with an unsupported kind.
C5_Witness ==
    /\ last.op = "make_api_call" /\ last.status = "500"
    /\ last.kind = "csv" /\ last.content = EmptyBody
    /\ last.outcome = "ServiceFail"

\* The body of a code-exchange response names no access_token: it is no JSON
\* object and no url-encoded text, or it is one without a non-blank
\* access_token.
LacksAccessToken(content) ==
    CASE content.form = "json_obj" -> content.obj["access_token"] = Absent
      [] content.form = "qs" ->
            \A i \in 1..Len(content.pairs) :
               content.pairs[i][1] = "access_token" => content.pairs[i][2] = ""
      [] OTHER -> TRUE

\* C6 as stated: an OAuth2 code exchange answered with a status other than
\* 200, or with a body that lacks access_token, fails with MissingToken and
\* leaves the stored access token as it was.
C6_Claim ==
    [][(/\ variant = "OAuth2"
        /\ last'.op = "receive_access_tokens"
        /\ last'.nreq = 1
        /\ (last'.status # "200" \/ LacksAccessToken(last'.content)))
       => (last'.outcome = "MissingToken" /\ access_token' = access_token)]_vars

\* C7 as stated: a call that made a request answered with a status other
\* than 200 does not return.
C7_Original == (last.nreq = 1 /\ last.status # "200") => last.outcome # "returned"

\* A url-encoded body with exactly one oauth_token and one oauth_token_secret
\* field, both non-blank, and nothing else.
WellFormed1(content) ==
    /\ content.form = "qs"
    /\ Len(content.pairs) = 2
    /\ {content.pairs[1][1], content.pairs[2][1]} = {"oauth_token", "oauth_token_secret"}
    /\ content.pairs[1][2] # ""
    /\ content.pairs[2][2] # ""

\* The value of the one field named n of a well-formed body.
FieldOf(content, n) ==
    Unquote(content.pairs[CHOOSE i \in 1..2 : content.pairs[i][1] = n][2])

\* C7, amended: OAuth1 get_tokens and OAuth2 receive_access_tokens fail on a
\* status other than 200 and store nothing from that response; make_api_call
\* fails on status 401 and treats every other status alike (a non-empty body
\* asked for raw is returned, also on a 500); OAuth1 receive_access_tokens
\* does not look at the status (a body holding a token pair is stored and
\* returned on every status).
C7_Amended ==
    [][/\ (/\ last'.nreq = 1
           /\ last'.status # "200"
           /\ \/ (variant = "OAuth1" /\ last'.op = "get_tokens")
              \/ (variant = "OAuth2" /\ last'.op = "receive_access_tokens"))
          => /\ last'.outcome # "returned"
             /\ last'.ret = RetNone
             /\ RequestPairUnchanged
             /\ access_token' = access_token
       /\ (last'.op = "make_api_call" /\ last'.nreq = 1)
          => /\ last'.status = "401" => last'.outcome = "NotAuthorized"
             /\ (last'.status # "401" /\ last'.content # EmptyBody /\ last'.kind = "raw")
                   => (last'.outcome = "returned" /\ last'.ret.body = last'.content)
             /\ access_token' = access_token
       /\ (/\ variant = "OAuth1"
           /\ last'.op = "receive_access_tokens"
           /\ last'.nreq = 1
           /\ WellFormed1(last'.content))
          => /\ last'.outcome = "returned"
             /\ access_token' = last'.ret.tok
             /\ access_token'.key = FieldOf(last'.content, "oauth_token")]_vars

\* C7 witness: get_tokens answered with a 500 that carries a token pair.
C7_Witness ==
    /\ variant = "OAuth1" /\ last.op = "get_tokens" /\ last.status = "500"
    /\ WellFormed1(last.content)
    /\ last.outcome = "Exception" /\ oauth_token = Absent

\* C8: OAuth2 receive_access_tokens without a code makes no request, raises
\* nothing, returns None and changes nothing on the flow.
C8_NoCodeNoOp ==
    [][(variant = "OAuth2" /\ last'.op = "receive_access_tokens" /\ code = Absent)
       => /\ last'.nreq = 0
          /\ last'.outcome = "returned"
          /\ last'.ret = RetNone
          /\ UNCHANGED <<config, oauth_token, oauth_token_secret, access_token,
                         gotTokens, received>>]_vars

\* C8 witness: the call was made on a flow without a code and returned None.
C8_Witness ==
    /\ variant = "OAuth2" /\ code = Absent
    /\ last.op = "receive_access_tokens" /\ last.nreq = 0
    /\ last.outcome = "returned" /\ last.ret = RetNone

\* C9: get_tokens answered with a 200 and a well-formed body stores that
\* body's pair, whatever was stored before, and returns the stored pair.
C9_StoresPair ==
    (/\ variant = "OAuth1"
     /\ last.op = "get_tokens"
     /\ last.nreq = 1
     /\ last.status = "200"
     /\ WellFormed1(last.content))
       => /\ last.outcome = "returned"
          /\ oauth_token = FieldOf(last.content, "oauth_token")
          /\ oauth_token_secret = FieldOf(last.content, "oauth_token_secret")
          /\ last.ret = RetPair(oauth_token, oauth_token_secret)

\* C9 witness: a flow built with the pair (t0, s0) now holds the response's.
C9_Witness ==
    /\ variant = "OAuth1" /\ oauth_verifier = "v0"
    /\ last.op = "get_tokens" /\ last.status = "200" /\ WellFormed1(last.content)
    /\ oauth_token = "tok1" /\ oauth_token_secret = "sec/1"

\* C10: get_tokens answered with a status other than 200 raises the
\* invalid-response error and leaves the request token pair and the access
\* token as they were.
C10_NonOkKeepsState ==
    [][(/\ variant = "OAuth1"
        /\ last'.op = "get_tokens"
        /\ last'.nreq = 1
        /\ last'.status # "200")
       => /\ last'.outcome = "Exception"
          /\ last'.detail = "Invalid response"
          /\ RequestPairUnchanged
          /\ access_token' = access_token
          /\ gotTokens' = gotTokens]_vars

\* C10 witness: a 401 with a token pair in its body left the pair (t0, s0).
C10_Witness ==
    /\ variant = "OAuth1" /\ last.op = "get_tokens" /\ last.status = "401"
    /\ WellFormed1(last.content)
    /\ last.outcome = "Exception" /\ oauth_token = "t0" /\ oauth_token_secret = "s0"

\* C11: no call makes more than one request, whether it returns or raises;
\* get_auth_params and get_auth_url make none.
C11_AtMostOneRequest ==
    /\ Len(last.reqs) <= 1
    /\ last.op \in {"get_auth_params", "get_auth_url"} => Len(last.reqs) = 0
    /\ last.status # "-" => Len(last.reqs) = 1

\* C11 witness: a failed get_tokens that made its one request.
C11_Witness ==
    /\ last.op = "get_tokens" /\ last.status = "500" /\ last.outcome = "Exception"
    /\ Len(last.reqs) = 1

\* The query string of the OAuth2 authorize url, from the configuration alone.
AuthorizeQuery ==
    [n \in ReqNames |->
        IF n = "client_id" THEN consumer_key
        ELSE IF n = "redirect_uri" THEN callback_url
        ELSE IF n = "response_type" THEN "code"
        ELSE IF n = "scope" /\ scope_urls # <<>> THEN "read write"
        ELSE Absent]

\* C12: get_auth_url makes no request and changes nothing stored on the flow
\* (request token pair, access token, verifier, code, credentials); on OAuth2
\* the url it returns is made of the configuration alone: client_id,
\* redirect_uri, response_type=code, and the scope when one is configured.
C12_AuthUrlPure ==
    [][last'.op = "get_auth_url"
       => /\ Len(last'.reqs) = 0
          /\ UNCHANGED <<config, oauth_token, oauth_token_secret, access_token>>
          /\ (variant = "OAuth2" /\ last'.outcome = "returned")
                => (last'.ret.kind = "url" /\ last'.ret.query = AuthorizeQuery)]_vars

\* C12 witness: the url of an OAuth2 flow with scopes, and of an OAuth1 flow
\* that holds a request token, are both reached; this is the OAuth2 one.
C12_Witness ==
    /\ variant = "OAuth2" /\ scope_urls # <<>> /\ code = "c0"
    /\ last.op = "get_auth_url" /\ last.outcome = "returned"
    /\ last.ret.query["scope"] = "read write"

\* A code-exchange body that names an access token and expires: 3600, and
\* no expires_in.
ExpiresOnly(content) ==
    CASE content.form = "json_obj" ->
            /\ content.obj["access_token"] # Absent
            /\ content.obj["expires"] = "3600"
            /\ content.obj["expires_in"] = Absent
      [] content.form = "qs" ->
            /\ \E i \in 1..Len(content.pairs) :
                  content.pairs[i][1] = "access_token" /\ content.pairs[i][2] # ""
            /\ \E i \in 1..Len(content.pairs) : content.pairs[i] = <<"expires", "3600">>
            /\ \A i \in 1..Len(content.pairs) : content.pairs[i][1] # "expires_in"
      [] OTHER -> FALSE

\* C13: a code exchange answered with a 200 whose body names a token and
\* expires: 3600 (no expires_in) stores a bundle with expiry 3600 and returns
\* the bundle it stored.
C13_ExpiresRenamed ==
    (/\ variant = "OAuth2"
     /\ last.op = "receive_access_tokens"
     /\ last.nreq = 1
     /\ last.status = "200"
     /\ ExpiresOnly(last.content))
       => /\ last.outcome = "returned"
          /\ access_token.tag = "oauth2"
          /\ access_token.expiry = 3600
          /\ last.ret = RetToken(access_token)

\* C13 witness: the url-encoded form, access_token=at1&expires=3600.
C13_Witness ==
    /\ variant = "OAuth2" /\ last.op = "receive_access_tokens" /\ last.status = "200"
    /\ last.content = QsBody(<<<<"access_token", "at1">>, <<"expires", "3600">>>>)
    /\ access_token = Tok("oauth2", "at1", None, None, 3600)

\* C14: for a response that is no 401 and has content, kind "json" with
\* content that is no JSON raises ServiceFail("JSON parse error") carrying
\* that content, and kind "raw" returns the content as it came.
C14_JsonErrorRawPass ==
    (last.op = "make_api_call" /\ last.nreq = 1 /\ last.status # "401"
        /\ last.content # EmptyBody)
       => /\ (last.kind = "json" /\ last.content.form \notin {"json_obj", "json_val"})
                => /\ last.outcome = "ServiceFail"
                   /\ last.detail = "JSON parse error"
                   /\ last.ret = RetBody("attached", last.content)
          /\ last.kind = "raw"
                => (last.outcome = "returned" /\ last.ret = RetBody("raw", last.content))

\* C14 witness: an XML document asked for as json.
C14_Witness ==
    /\ last.op = "make_api_call" /\ last.kind = "json" /\ last.status = "200"
    /\ last.content = XmlBody /\ last.outcome = "ServiceFail"
    /\ last.ret.body = XmlBody

\* C15: a stored access token changes only in a receive_access_tokens call
\* that returns, and then to the token that call returns; get_tokens,
\* get_auth_params, get_auth_url, make_api_call (whatever its outcome and its
\* token argument) and a failed or skipped receive_access_tokens leave it.
C15_TokenKept ==
    [][(access_token # NoToken /\ access_token' # access_token)
       => /\ last'.op = "receive_access_tokens"
          /\ last'.outcome = "returned"
          /\ last'.ret = RetToken(access_token')
          /\ access_token' # NoToken]_vars

\* C15 witness: a token obtained by receive_access_tokens is still stored
\* after a make_api_call with an explicit token that ended in NotAuthorized.
C15_Witness ==
    /\ received /\ access_token.tag = "oauth1"
    /\ last.op = "make_api_call" /\ last.tokarg = ArgToken
    /\ last.outcome = "NotAuthorized"

\* C16 as stated: the request of an OAuth2 make_api_call carries an
\* access_token parameter whose value is the token make_api_call resolved,
\* for every method and every params mapping of the caller.
C16_Claim ==
    (variant = "OAuth2" /\ last.op = "make_api_call" /\ last.nreq = 1)
       => last.reqs[1].params["access_token"] = StrOf(last.eff)

\* C17 as stated: the code exchange is a POST to the access-token endpoint
\* whose body holds exactly client_id, redirect_uri, client_secret, code and
\* grant_type = authorization_code, whatever the configuration.
C17_Claim ==
    (variant = "OAuth2" /\ last.op = "receive_access_tokens" /\ last.nreq = 1)
       => /\ last.reqs[1].method = "POST"
          /\ last.reqs[1].endpoint = "access_token_url"
          /\ last.reqs[1].via = "body"
          /\ Keys(last.reqs[1].params) =
                {"client_id", "redirect_uri", "client_secret", "code", "grant_type"}
          /\ last.reqs[1].params["grant_type"] = "authorization_code"

\* C18: a kind other than raw, json and xml never yields a result; on a
\* response that is no 401 and has content the call raises the
\* unsupported-kind error, and that error is raised only by a call that has
\* made its request.
C18_UnsupportedKind ==
    /\ (last.op = "make_api_call" /\ last.kind \notin {"raw", "json", "xml"})
          => /\ last.outcome # "returned"
             /\ last.ret = RetNone
             /\ (last.nreq = 1 /\ last.status # "401" /\ last.content # EmptyBody)
                   => (last.outcome = "Exception" /\ last.detail = "unsupported API kind")
    /\ last.detail = "unsupported API kind"
          => (last.op = "make_api_call" /\ last.nreq = 1)

\* C18 witness: an XML document asked for with kind csv.
C18_Witness ==
    /\ last.op = "make_api_call" /\ last.kind = "csv" /\ last.status = "200"
    /\ last.content = XmlBody /\ last.nreq = 1
    /\ last.outcome = "Exception" /\ last.detail = "unsupported API kind"

\* C19: no call changes the consumer key or the consumer secret.
C19_CredentialsKept ==
    [][consumer_key' = consumer_key /\ consumer_secret' = consumer_secret]_vars

\* C19 witness: the credentials of the construction after get_tokens and
\* receive_access_tokens have succeeded and a make_api_call has failed.
C19_Witness ==
    /\ consumer_key = "ck" /\ consumer_secret = "cs"
    /\ gotTokens /\ received
    /\ last.op = "make_api_call" /\ last.outcome = "ServiceFail"

\* C20 as stated: after get_tokens has returned, both oauth_token and
\* oauth_token_secret are present, whatever the body of the 200 response.
C20_Claim ==
    (variant = "OAuth1" /\ last.op = "get_tokens" /\ last.outcome = "returned")
       => PairStored

====
